---- MODULE Spec2Model ----
(***************************************************************************)
(* esbulk (cmd/esbulk/esbulk.go): the main goroutine prepares the index,   *)
(* starts numWorkers worker goroutines on one unbuffered channel, disables *)
(* the refresh interval, streams the lines of the input into the channel,  *)
(* closes it, waits for the workers and runs the deferred shutdown         *)
(* procedure (restore refresh interval, flush).                            *)
(*                                                                         *)
(* log.Fatal is os.Exit(1) after printing: it ends the process at once and *)
(* runs no deferred function.                                              *)
(*                                                                         *)
(* esbulk.Worker (package github.com/miku/esbulk) is not part of the       *)
(* sources at hand; the worker below follows sections 4.2 to 4.5 of the    *)
(* specification.                                                          *)
(***************************************************************************)
EXTENDS Integers, Sequences, FiniteSets

\* ---------------------------------------------------------------- bounds
MaxLines == 3
MaxWorkers == 2
MaxBatch == 2
MaxUser == 3

\* ---------------------------------------------------------------- state
VARIABLES
    purge,        \* flag -purge
    mapping,      \* flag -mapping given (non-empty)
    numWorkers,   \* flag -w
    batchSize,    \* options.BatchSize (flag -size)
    idfield,      \* options.IDField given (non-empty)
    input,        \* the lines of the input file, each "doc" or "bad"
    terminated,   \* the last line of the input ends with '\n'
    user,         \* flag -u, a string of characters
    username,     \* options.Username
    password,     \* options.Password
    authed,       \* the requests of main sent with SetBasicAuth
    pc,           \* position of the main goroutine
    exitCode,     \* exit code of the process, meaningful when pc = "exit"
    outcome,      \* what each step of main returned
    i,            \* loop variable of the worker start loop
    pos,          \* number of lines ReadString has consumed
    line,         \* the line main holds (0: none), a position in input
    counter,      \* counter: lines sent to the queue
    closes,       \* number of close(queue) calls performed
    wg,           \* counter of the sync.WaitGroup
    wpc,          \* position of each worker goroutine
    docs,         \* each worker's batch buffer
    submitted,    \* each worker's submitted batches, in submission order
    failed,       \* each worker's number of failed bulk writes
    reqs          \* the HTTP requests issued so far, in order

vars == <<purge, mapping, numWorkers, batchSize, idfield, input, terminated,
          user, username, password, authed, pc, exitCode, outcome, i, pos,
          line, counter, closes, wg, wpc, docs, submitted, failed, reqs>>

config == <<purge, mapping, numWorkers, batchSize, idfield, input,
            terminated, user>>

auth == <<username, password, authed>>

mainLocals == <<i, pos, line, counter>>

workerVars == <<wpc, docs, submitted, failed>>

Workers == 0 .. (MaxWorkers - 1)

Steps == {"args", "open", "user", "server", "delete", "create", "mapping",
          "disable", "gzip", "read", "memprofile", "restore", "flush"}

\* The streams of at most MaxLines lines; a line is a document ("doc") or,
\* when an identifier field is configured, possibly one that does not carry
\* it ("bad").
Streams == UNION {[1 .. n -> {"doc", "bad"}] : n \in 0 .. MaxLines}

\* The values of -u of at most MaxUser characters; "a" stands for any
\* character other than the colon.
Users == UNION {[1 .. n -> {"a", ":"}] : n \in 0 .. MaxUser}

\* The state after flag.Parse, for a choice of -u among users, of -w up to
\* workers, of -size up to batch and an input of at most lines lines.
InitWith(users, workers, batch, lines) ==
    /\ purge \in BOOLEAN
    /\ mapping \in BOOLEAN
    /\ numWorkers \in 0 .. workers
    /\ batchSize \in 1 .. batch
    /\ idfield \in BOOLEAN
    /\ input \in Streams
    /\ Len(input) <= lines
    /\ terminated \in BOOLEAN
    /\ user \in users
    /\ username = <<>>
    /\ password = <<>>
    /\ authed = {}
    /\ (input = <<>> => terminated)
    /\ (~idfield => \A k \in DOMAIN input : input[k] = "doc")
    /\ pc = "args"
    /\ exitCode = 0
    /\ outcome = [s \in Steps |-> "none"]
    /\ i = 0
    /\ pos = 0
    /\ line = 0
    /\ counter = 0
    /\ closes = 0
    /\ wg = 0
    /\ wpc = [w \in Workers |-> "idle"]
    /\ docs = [w \in Workers |-> <<>>]
    /\ submitted = [w \in Workers |-> <<>>]
    /\ failed = [w \in Workers |-> 0]
    /\ reqs = <<>>

\* Runs without -u, or with a -u that holds no colon.
Init == InitWith({<<>>, <<"a">>}, MaxWorkers, MaxBatch, MaxLines)

\* Runs with every value of -u, on a load of one worker and one line at
\* most.
InitAuth == InitWith(Users, 1, 1, 1)

\* ---------------------------------------------------------------- helpers
Running == pc # "exit"

Record(step, o) == outcome' = [outcome EXCEPT ![step] = o]

\* log.Fatal: print, then os.Exit(1); deferred functions do not run.
Fatal ==
    /\ pc' = "exit"
    /\ exitCode' = 1

\* os.Exit(code), and the return of main (code 0).
Exit(code) ==
    /\ pc' = "exit"
    /\ exitCode' = code

Goto(next) ==
    /\ pc' = next
    /\ UNCHANGED exitCode

Issue(kind) == reqs' = Append(reqs, kind)

\* if options.Username != "" && options.Password != "" {
\*     req.SetBasicAuth(options.Username, options.Password) }
\* and client.Do(req), for a request of main.
Do(kind) ==
    /\ Issue(kind)
    /\ authed' = IF username # <<>> /\ password # <<>>
                 THEN authed \cup {kind}
                 ELSE authed

\* ---------------------------------------------------------------- main: setup
\* flag.Parse, -cpuprofile, -v, the JSON argument, -index.
CheckArgs ==
    /\ pc = "args"
    /\ \E o \in {"ok", "version", "err"} :
        /\ Record("args", o)
        /\ CASE o = "ok" -> Goto("open")
             [] o = "version" -> Exit(0)
             [] o = "err" -> Exit(1)
    /\ UNCHANGED <<config, auth, mainLocals, closes, wg, workerVars, reqs>>

\* os.Open(flag.Arg(0))
OpenFile ==
    /\ pc = "open"
    /\ \E o \in {"ok", "err"} :
        /\ Record("open", o)
        /\ IF o = "ok" THEN Goto("user") ELSE Fatal
    /\ UNCHANGED <<config, auth, mainLocals, closes, wg, workerVars, reqs>>

RECURSIVE Split(_)
\* strings.Split(s, ":"): the pieces of s between its colons.
Split(s) ==
    IF \A n \in DOMAIN s : s[n] # ":" THEN <<s>>
    ELSE LET k == CHOOSE n \in DOMAIN s :
                      s[n] = ":" /\ \A m \in 1 .. (n - 1) : s[m] # ":"
         IN <<SubSeq(s, 1, k - 1)>> \o Split(SubSeq(s, k + 1, Len(s)))

\* if len(*user) > 0 { parts := strings.Split(*user, ":"); ... }
ParseUser ==
    /\ pc = "user"
    /\ IF Len(user) > 0
       THEN IF Len(Split(user)) # 2
            THEN /\ Record("user", "err")
                 /\ Fatal
                 /\ UNCHANGED <<username, password>>
            ELSE /\ username' = Split(user)[1]
                 /\ password' = Split(user)[2]
                 /\ Record("user", "ok")
                 /\ Goto("server")
       ELSE /\ Record("user", "ok")
            /\ Goto("server")
            /\ UNCHANGED <<username, password>>
    /\ UNCHANGED <<config, authed, mainLocals, closes, wg, workerVars, reqs>>

\* options.SetServer(*server)
SetServer ==
    /\ pc = "server"
    /\ \E o \in {"ok", "err"} :
        /\ Record("server", o)
        /\ IF o = "ok" THEN Goto("delete") ELSE Fatal
    /\ UNCHANGED <<config, auth, mainLocals, closes, wg, workerVars, reqs>>

\* if *purge { esbulk.DeleteIndex(options) }
DeleteIndex ==
    /\ pc = "delete"
    /\ IF purge
       THEN /\ Issue("delete")
            /\ \E o \in {"ok", "err"} :
                /\ Record("delete", o)
                /\ IF o = "ok" THEN Goto("create") ELSE Fatal
       ELSE /\ Goto("create")
            /\ UNCHANGED <<outcome, reqs>>
    /\ UNCHANGED <<config, auth, mainLocals, closes, wg, workerVars>>

\* CreateIndex with the error of esbulk.CreateIndex dropped.
CreateIndexUnchecked ==
    /\ pc = "create"
    /\ Issue("create")
    /\ \E o \in {"ok", "err"} : Record("create", o)
    /\ Goto("mapping")
    /\ UNCHANGED <<config, auth, mainLocals, closes, wg, workerVars>>

\* esbulk.CreateIndex(options)
CreateIndex ==
    /\ pc = "create"
    /\ Issue("create")
    /\ \E o \in {"ok", "err"} :
        /\ Record("create", o)
        /\ IF o = "ok" THEN Goto("mapping") ELSE Fatal
    /\ UNCHANGED <<config, auth, mainLocals, closes, wg, workerVars>>

\* if *mapping != "" { ... esbulk.PutMapping(options, reader) }
\* "nofile": the mapping names a file that exists and cannot be opened.
PutMapping ==
    /\ pc = "mapping"
    /\ IF mapping
       THEN \E o \in {"ok", "err", "nofile"} :
                /\ Record("mapping", o)
                /\ IF o = "nofile" THEN UNCHANGED reqs ELSE Issue("mapping")
                /\ IF o = "ok" THEN Goto("workers") ELSE Fatal
       ELSE /\ Goto("workers")
            /\ UNCHANGED <<outcome, reqs>>
    /\ UNCHANGED <<config, auth, mainLocals, closes, wg, workerVars>>

\* StartWorker without wg.Add(1).
StartWorkerNoAdd ==
    /\ pc = "workers"
    /\ IF i < numWorkers
       THEN /\ wpc' = [wpc EXCEPT ![i] = "recv"]
            /\ i' = i + 1
            /\ Goto(pc)
       ELSE /\ Goto("disable")
            /\ UNCHANGED <<wpc, i>>
    /\ UNCHANGED <<config, auth, outcome, pos, line, counter, closes, wg, docs,
                   submitted, failed, reqs>>

\* for i := 0; i < *numWorkers; i++ { wg.Add(1); go esbulk.Worker(...) }
StartWorker ==
    /\ pc = "workers"
    /\ IF i < numWorkers
       THEN /\ wg' = wg + 1
            /\ wpc' = [wpc EXCEPT ![i] = "recv"]
            /\ i' = i + 1
            /\ Goto(pc)
       ELSE /\ Goto("disable")
            /\ UNCHANGED <<wg, wpc, i>>
    /\ UNCHANGED <<config, auth, outcome, pos, line, counter, closes, docs,
                   submitted, failed, reqs>>

\* DisableRefresh with the check of resp.StatusCode dropped.
DisableRefreshNoStatusCheck ==
    /\ pc = "disable"
    /\ \E o \in {"ok", "status4xx", "err", "badreq"} :
        /\ Record("disable", o)
        /\ IF o = "badreq" THEN UNCHANGED <<reqs, authed>> ELSE Do("disable")
        /\ IF o \in {"ok", "status4xx"} THEN Goto("reader") ELSE Fatal
    /\ UNCHANGED <<config, username, password, mainLocals, closes, wg,
                   workerVars>>

\* DisableRefresh going on to the load after a transport error.
DisableRefreshErrDropped ==
    /\ pc = "disable"
    /\ \E o \in {"ok", "status4xx", "err", "badreq"} :
        /\ Record("disable", o)
        /\ IF o = "badreq" THEN UNCHANGED <<reqs, authed>> ELSE Do("disable")
        /\ IF o \in {"ok", "err"} THEN Goto("reader") ELSE Fatal
    /\ UNCHANGED <<config, username, password, mainLocals, closes, wg,
                   workerVars>>

\* PUT /index/_settings {"index": {"refresh_interval": "-1"}}
\* "badreq": http.NewRequest fails, nothing is sent.
DisableRefresh ==
    /\ pc = "disable"
    /\ \E o \in {"ok", "status4xx", "err", "badreq"} :
        /\ Record("disable", o)
        /\ IF o = "badreq" THEN UNCHANGED <<reqs, authed>> ELSE Do("disable")
        /\ IF o = "ok" THEN Goto("reader") ELSE Fatal
    /\ UNCHANGED <<config, username, password, mainLocals, closes, wg,
                   workerVars>>

\* OpenReader with the error of gzip.NewReader dropped.
OpenReaderUnchecked ==
    /\ pc = "reader"
    /\ \E gzipped \in BOOLEAN :
        IF gzipped
        THEN \E o \in {"ok", "err"} : Record("gzip", o)
        ELSE UNCHANGED outcome
    /\ Goto("read")
    /\ UNCHANGED <<config, auth, mainLocals, closes, wg, workerVars, reqs>>

\* reader := bufio.NewReader(file); if *gzipped { gzip.NewReader(file) }
\* The flag -z is read here only; outcome["gzip"] stays "none" without it.
OpenReader ==
    /\ pc = "reader"
    /\ \E gzipped \in BOOLEAN :
        IF gzipped
        THEN \E o \in {"ok", "err"} :
                 /\ Record("gzip", o)
                 /\ IF o = "ok" THEN Goto("read") ELSE Fatal
        ELSE /\ Goto("read")
             /\ UNCHANGED outcome
    /\ UNCHANGED <<config, auth, mainLocals, closes, wg, workerVars, reqs>>

\* ---------------------------------------------------------------- worker
\* Document Encoder: with an identifier field configured, a record without
\* a usable identifier is a MalformedDocument; without one every record is
\* passed through.
Malformed(k) == idfield /\ input[k] = "bad"

\* The batch a worker's buffer holds once record k has been encoded.
Accumulate(w, k) == IF Malformed(k) THEN docs[w] ELSE Append(docs[w], k)

\* Bulk Submitter, request sent: the batch leaves the buffer.
Submit(w, batch, state) ==
    /\ submitted' = [submitted EXCEPT ![w] = Append(@, batch)]
    /\ docs' = [docs EXCEPT ![w] = <<>>]
    /\ wpc' = [wpc EXCEPT ![w] = state]
    /\ Issue("bulk")

\* options.BatchSize with the worker count put in it.
OptionsBatchSizeFromWorkers == numWorkers

\* options := esbulk.Options{..., BatchSize: *batchSize, ...}: the batch
\* size the workers are started with.
OptionsBatchSize == batchSize

\* One record pulled from the intake queue: encode, accumulate, flush when
\* the buffer holds options.BatchSize documents.
WorkerRecv(w, k) ==
    /\ wpc[w] = "recv"
    /\ IF Len(Accumulate(w, k)) = OptionsBatchSize
       THEN Submit(w, Accumulate(w, k), "bulk")
       ELSE /\ docs' = [docs EXCEPT ![w] = Accumulate(w, k)]
            /\ UNCHANGED <<wpc, submitted, reqs>>

\* The intake queue is closed: flush a non-empty buffer, or return.
WorkerClosed(w) ==
    /\ Running
    /\ wpc[w] = "recv"
    /\ closes > 0
    /\ IF docs[w] # <<>>
       THEN /\ Submit(w, docs[w], "finalbulk")
            /\ UNCHANGED wg
       ELSE /\ wpc' = [wpc EXCEPT ![w] = "done"]
            /\ wg' = wg - 1
            /\ UNCHANGED <<docs, submitted, reqs>>
    /\ UNCHANGED <<config, auth, pc, exitCode, outcome, mainLocals, closes,
                   failed>>

\* BulkReturn with a failed bulk write treated as fatal.
BulkReturnFatal(w) ==
    /\ Running
    /\ wpc[w] \in {"bulk", "finalbulk"}
    /\ \E o \in {"ok", "status4xx", "err"} :
        IF o = "ok"
        THEN /\ IF wpc[w] = "bulk"
                THEN /\ wpc' = [wpc EXCEPT ![w] = "recv"]
                     /\ UNCHANGED wg
                ELSE /\ wpc' = [wpc EXCEPT ![w] = "done"]
                     /\ wg' = wg - 1
             /\ UNCHANGED <<pc, exitCode, failed>>
        ELSE /\ failed' = [failed EXCEPT ![w] = @ + 1]
             /\ Fatal
             /\ UNCHANGED <<wpc, wg>>
    /\ UNCHANGED <<config, auth, outcome, mainLocals, closes, docs, submitted,
                   reqs>>

\* The bulk write returns; a failure is logged and counted, not retried.
\* After the final flush the worker returns (wg.Done).
BulkReturn(w) ==
    /\ Running
    /\ wpc[w] \in {"bulk", "finalbulk"}
    /\ \E o \in {"ok", "status4xx", "err"} :
        failed' = [failed EXCEPT ![w] = IF o = "ok" THEN @ ELSE @ + 1]
    /\ IF wpc[w] = "bulk"
       THEN /\ wpc' = [wpc EXCEPT ![w] = "recv"]
            /\ UNCHANGED wg
       ELSE /\ wpc' = [wpc EXCEPT ![w] = "done"]
            /\ wg' = wg - 1
    /\ UNCHANGED <<config, auth, pc, exitCode, outcome, mainLocals, closes,
                   docs, submitted, reqs>>

\* ---------------------------------------------------------------- main: load
\* line, err := reader.ReadString('\n'), and what the loop does with err.
\* ReadString returns the data read so far together with io.EOF when the
\* stream ends before a delimiter; the loop breaks on io.EOF.
ReadLine ==
    /\ pc = "read"
    /\ \/ /\ pos < Len(input)
          /\ pos + 1 < Len(input) \/ terminated
          /\ pos' = pos + 1
          /\ line' = pos + 1
          /\ Goto("send")
          /\ UNCHANGED outcome
       \/ /\ pos + 1 = Len(input)
          /\ ~terminated
          /\ pos' = pos + 1
          /\ line' = 0
          /\ Goto("close")
          /\ UNCHANGED outcome
       \/ /\ pos = Len(input)
          /\ Goto("close")
          /\ UNCHANGED <<pos, line, outcome>>
       \/ /\ Record("read", "err")
          /\ Fatal
          /\ UNCHANGED <<pos, line>>
    /\ UNCHANGED <<config, auth, i, counter, closes, wg, workerVars, reqs>>

\* Send delivering the line before the one just read.
SendStale(w) ==
    /\ pc = "send"
    /\ closes = 0
    /\ WorkerRecv(w, IF line > 1 THEN line - 1 ELSE line)
    /\ line' = 0
    /\ counter' = counter + 1
    /\ Goto("read")
    /\ UNCHANGED <<config, auth, outcome, i, pos, closes, wg, failed>>

\* Send on a buffered channel: the send completes with no worker receiving
\* the line.
SendBuffered(w) ==
    /\ pc = "send"
    /\ closes = 0
    /\ wpc[w] # "idle"
    /\ line' = 0
    /\ counter' = counter + 1
    /\ Goto("read")
    /\ UNCHANGED <<config, auth, outcome, i, pos, closes, wg, workerVars,
                   reqs>>

\* queue <- line; counter += 1.  The channel is unbuffered: the send
\* completes when a worker receives the line.
Send(w) ==
    /\ pc = "send"
    /\ closes = 0
    /\ WorkerRecv(w, line)
    /\ line' = 0
    /\ counter' = counter + 1
    /\ Goto("read")
    /\ UNCHANGED <<config, auth, outcome, i, pos, closes, wg, failed>>

\* main is in queue <- line and no worker goroutine was ever started: no
\* receiver exists or will exist.
Blocked == pc = "send" /\ numWorkers = 0

\* The Go runtime finds every goroutine asleep and ends the process with
\* exit code 2; no deferred function runs.  Whether it does depends on the
\* runtime (goroutines of the HTTP transport may hide the deadlock), so the
\* process may also stay blocked for ever: the action is never forced.
Deadlock ==
    /\ Blocked
    /\ Exit(2)
    /\ UNCHANGED <<config, auth, outcome, mainLocals, closes, wg, workerVars,
                   reqs>>

\* close(queue)
CloseQueue ==
    /\ pc = "close"
    /\ closes' = closes + 1
    /\ Goto("wait")
    /\ UNCHANGED <<config, auth, outcome, mainLocals, wg, workerVars, reqs>>

\* Wait returning whatever the counter of the WaitGroup.
WaitNoBlock ==
    /\ pc = "wait"
    /\ Goto("memprofile")
    /\ UNCHANGED <<config, auth, outcome, mainLocals, closes, wg, workerVars,
                   reqs>>

\* wg.Wait()
Wait ==
    /\ pc = "wait"
    /\ wg = 0
    /\ Goto("memprofile")
    /\ UNCHANGED <<config, auth, outcome, mainLocals, closes, wg, workerVars,
                   reqs>>

\* if *memprofile != "" { os.Create(*memprofile) ... }; main returns and
\* its deferred functions run.
\* The flag -memprofile is read here only; outcome["memprofile"] stays
\* "none" without it.
MemProfile ==
    /\ pc = "memprofile"
    /\ \E memprofile \in BOOLEAN :
        IF memprofile
        THEN \E o \in {"ok", "err"} :
                 /\ Record("memprofile", o)
                 /\ IF o = "ok" THEN Goto("restore") ELSE Fatal
        ELSE /\ Goto("restore")
             /\ UNCHANGED outcome
    /\ UNCHANGED <<config, auth, mainLocals, closes, wg, workerVars, reqs>>

\* ---------------------------------------------------------------- main: teardown
\* deferred: PUT /index/_settings {"index": {"refresh_interval": "1s"}}
RestoreRefresh ==
    /\ pc = "restore"
    /\ Do("restore")
    /\ \E o \in {"ok", "status4xx", "err"} :
        /\ Record("restore", o)
        /\ IF o = "err" THEN Fatal ELSE Goto("flush")
    /\ UNCHANGED <<config, username, password, mainLocals, closes, wg,
                   workerVars>>

\* deferred: POST /index/_flush; then the process exits with code 0.
Flush ==
    /\ pc = "flush"
    /\ Do("flush")
    /\ \E o \in {"ok", "status4xx", "err"} :
        /\ Record("flush", o)
        /\ IF o = "err" THEN Fatal ELSE Exit(0)
    /\ UNCHANGED <<config, username, password, mainLocals, closes, wg,
                   workerVars>>

\* ---------------------------------------------------------------- specification
Next ==
    \/ CheckArgs
    \/ OpenFile
    \/ ParseUser
    \/ SetServer
    \/ DeleteIndex
    \/ CreateIndex
    \/ PutMapping
    \/ StartWorker
    \/ DisableRefresh
    \/ OpenReader
    \/ ReadLine
    \/ \E w \in Workers : Send(w)
    \/ Deadlock
    \/ CloseQueue
    \/ Wait
    \/ MemProfile
    \/ RestoreRefresh
    \/ Flush
    \/ \E w \in Workers : WorkerClosed(w)
    \/ \E w \in Workers : BulkReturn(w)

Spec == Init /\ [][Next]_vars

\* The same program started with every -u value over {"a", ":"} up to
\* MaxUser characters, on a small load.
SpecAuth == InitAuth /\ [][Next]_vars

\* Fair scheduling: a step of main or of a worker that stays possible is
\* eventually taken (every call returns).  The runtime's deadlock detection
\* is not forced.
FairSpec == Spec /\ WF_vars(~Blocked /\ Next)

\* ---------------------------------------------------------------- vocabulary of the properties
Exited == pc = "exit"

Issued(kind) == \E n \in DOMAIN reqs : reqs[n] = kind

Count(kind) == Cardinality({n \in DOMAIN reqs : reqs[n] = kind})

Before(a, b) ==
    \A n \in DOMAIN reqs : reqs[n] = b => \E m \in 1 .. (n - 1) : reqs[m] = a

Failed(step) == outcome[step] \in {"err", "status4xx", "nofile", "badreq"}

SetupSteps == {"args", "open", "user", "server", "delete", "create",
               "mapping", "disable", "gzip"}

Started == 0 .. (i - 1)

\* close(queue) and wg.Wait() are behind main.
LoadDone == closes > 0 /\ pc # "wait"

NoDocumentMoved ==
    /\ pos = 0
    /\ counter = 0
    /\ line = 0
    /\ \A w \in Workers : docs[w] = <<>> /\ submitted[w] = <<>>
    /\ ~Issued("bulk")

\* ---------------------------------------------------------------- C1
\* C1: in every execution in which the disable-refresh request has been
\* issued, the restore-refresh request is issued before the process exits.
\* Stated on the final state: a process that has exited after issuing the
\* disable-refresh request has issued the restore-refresh request.
C1_RestoreBeforeExit ==
    (Exited /\ Issued("disable")) => Issued("restore")

\* ---------------------------------------------------------------- C2
\* C2: once teardown has started (the restore-refresh request has been
\* issued), both teardown requests are issued exactly once and in order
\* before the process exits, also when the restore-refresh request fails.
C2_TeardownBothOnce ==
    (Exited /\ Issued("restore")) =>
        /\ Count("restore") = 1
        /\ Count("flush") = 1
        /\ Before("restore", "flush")

\* ---------------------------------------------------------------- C3
\* C3: a failure of the restore-refresh or of the flush request after the
\* load has completed leaves the exit code at 0, and a non-zero exit code
\* occurs only when a step of the fatal/setup class has failed (the class
\* is read at its widest: it takes in an unreadable input stream and a heap
\* profile that cannot be created).
C3_TeardownFailureExitsZero ==
    Exited =>
        /\ (Failed("restore") \/ Failed("flush")) => exitCode = 0
        /\ exitCode # 0 =>
               \E s \in SetupSteps \cup {"read", "memprofile"} : Failed(s)

\* ---------------------------------------------------------------- C4
\* C4: the restore-refresh request is issued only after the queue has been
\* closed and every started worker has returned; the flush request is
\* issued only after the restore-refresh request; each of the two is issued
\* at most once; no bulk write is issued or in flight once restore-refresh
\* has been issued.
C4_TeardownAfterWorkers ==
    /\ Issued("restore") =>
          /\ closes = 1
          /\ wg = 0
          /\ \A w \in Started : wpc[w] = "done" /\ docs[w] = <<>>
          /\ \A n \in DOMAIN reqs : reqs[n] = "restore" =>
                \A m \in DOMAIN reqs : m > n => reqs[m] # "bulk"
    /\ Before("restore", "flush")
    /\ Count("restore") <= 1
    /\ Count("flush") <= 1

\* Two workers have submitted bulk writes and the teardown has run.
C4_Witness ==
    /\ Exited
    /\ exitCode = 0
    /\ Issued("flush")
    /\ numWorkers = 2
    /\ submitted[0] # <<>>
    /\ submitted[1] # <<>>

\* ---------------------------------------------------------------- C5
\* C5: the queue is closed at most once, and only when every record of the
\* input stream has been sent: once it is closed, the number of records sent
\* is and stays the number of lines of the input and main holds no line.
C5_ClosedAfterLastRecord ==
    /\ closes <= 1
    /\ closes > 0 => (counter = Len(input) /\ line = 0)

\* ---------------------------------------------------------------- C6
\* The requests of the index lifecycle, in the order the configuration asks
\* for.
Lifecycle ==
    (IF purge THEN <<"delete">> ELSE <<>>) \o <<"create">>
        \o (IF mapping THEN <<"mapping">> ELSE <<>>)
        \o <<"disable", "restore", "flush">>

NotBulk(kind) == kind # "bulk"

IsPrefix(a, b) == Len(a) <= Len(b) /\ SubSeq(b, 1, Len(a)) = a

PreLoad == <<"delete", "create", "mapping", "disable">>

\* C6: the lifecycle requests are issued in the fixed order delete (only
\* with purge), create, mapping (only with a mapping), disable refresh,
\* restore refresh, flush; the load (lines read, records sent, bulk writes)
\* lies between disable refresh and restore refresh; a pre-load step that
\* fails ends the process with no later step attempted and no line read or
\* sent.
C6_LifecycleOrder ==
    /\ IsPrefix(SelectSeq(reqs, NotBulk), Lifecycle)
    /\ (pos > 0 \/ counter > 0 \/ closes > 0 \/ Issued("bulk")) =>
           outcome["disable"] = "ok"
    /\ Issued("restore") => LoadDone
    /\ \A n \in DOMAIN reqs : reqs[n] = "bulk" =>
           /\ \E m \in 1 .. (n - 1) : reqs[m] = "disable"
           /\ \A m \in 1 .. (n - 1) : reqs[m] # "restore"
    /\ \A a \in DOMAIN PreLoad : Failed(PreLoad[a]) =>
           /\ Exited
           /\ exitCode = 1
           /\ \A b \in DOMAIN PreLoad : b > a =>
                  outcome[PreLoad[b]] = "none" /\ ~Issued(PreLoad[b])
           /\ \A s \in {"gzip", "read", "memprofile", "restore", "flush"} :
                  outcome[s] = "none"
           /\ ~Issued("restore")
           /\ ~Issued("flush")
           /\ NoDocumentMoved
           /\ closes = 0

\* A complete run with purge and a mapping, one bulk write at least.
C6_Witness ==
    /\ Exited
    /\ exitCode = 0
    /\ purge
    /\ mapping
    /\ Issued("bulk")
    /\ SelectSeq(reqs, NotBulk) = Lifecycle

\* ---------------------------------------------------------------- C7
\* C7 as stated: no worker is started before the disable-refresh request
\* has completed successfully.
C7_NoWorkerBeforeDisable ==
    \A w \in Workers : wpc[w] # "idle" => outcome["disable"] = "ok"

\* C7 amended: workers are started before the disable-refresh request, but
\* until it has completed successfully every started worker is blocked in
\* its receive with an empty buffer: no record has been sent or received and
\* no bulk write has been issued.
C7_NoReceiveBeforeDisable ==
    outcome["disable"] # "ok" =>
        /\ \A w \in Workers : wpc[w] \in {"idle", "recv"}
        /\ NoDocumentMoved

\* The workers run and the disable-refresh request was answered with a
\* status >= 400.
C7_Witness ==
    /\ outcome["disable"] = "status4xx"
    /\ numWorkers = 2
    /\ \A w \in Workers : wpc[w] = "recv"

\* ---------------------------------------------------------------- C8
\* C8 as stated: the process never exits through a fatal error after a
\* record has been handed to a worker or submitted in a bulk write.
C8_FatalBeforeAnyDocument ==
    (Exited /\ exitCode = 1) => (counter = 0 /\ ~Issued("bulk"))

\* C8 amended: a failure of a setup step (configuration, opening the input,
\* delete, create, mapping, disable refresh, opening the gzip stream) ends
\* the process with exit code 1 before any line is read or sent; a fatal
\* exit after a record has been handed to a worker comes from a stream read
\* error, from the heap profile, or from a transport error of a teardown
\* request.
C8_SetupFatalBeforeAnyDocument ==
    /\ (\E s \in SetupSteps : Failed(s)) =>
           (Exited /\ exitCode = 1 /\ NoDocumentMoved)
    /\ (Exited /\ exitCode = 1 /\ (counter > 0 \/ Issued("bulk"))) =>
           \/ outcome["read"] = "err"
           \/ outcome["memprofile"] = "err"
           \/ outcome["restore"] = "err"
           \/ outcome["flush"] = "err"

\* The gzip stream cannot be opened; the workers run and refresh is disabled.
C8_Witness ==
    /\ Exited
    /\ exitCode = 1
    /\ outcome["gzip"] = "err"
    /\ numWorkers = 2
    /\ wg = 2
    /\ Len(input) > 0

\* ---------------------------------------------------------------- C9
CeilDiv(a, b) == (a + b - 1) \div b

RECURSIVE SumLen(_)
\* The number of documents in a sequence of batches.
SumLen(batches) ==
    IF batches = <<>> THEN 0
    ELSE Len(Head(batches)) + SumLen(Tail(batches))

RECURSIVE NumBatchesUpTo(_)
NumBatchesUpTo(n) ==
    IF n = 0 THEN 0 ELSE Len(submitted[n - 1]) + NumBatchesUpTo(n - 1)

RECURSIVE NumDocsUpTo(_)
NumDocsUpTo(n) ==
    IF n = 0 THEN 0 ELSE SumLen(submitted[n - 1]) + NumDocsUpTo(n - 1)

\* Batches and documents submitted by all workers together.
NumBatches == NumBatchesUpTo(MaxWorkers)

NumDocs == NumDocsUpTo(MaxWorkers)

\* The records sent to the queue, those of them skipped as malformed and
\* those accepted.
Sent == 1 .. counter

Skipped == {k \in Sent : Malformed(k)}

Accepted == Sent \ Skipped

\* C9 as stated: when the load is over the workers have together submitted
\* ceil(M / B) batches.  M is read in the claim's favour: the records sent
\* to the queue and not skipped as malformed.
C9_TotalBatchesCeil ==
    (LoadDone /\ numWorkers >= 1) =>
        NumBatches = CeilDiv(Cardinality(Accepted), batchSize)

\* C9 amended: when the load is over each worker has submitted ceil(a / B)
\* batches, a the number of documents it accepted; the total lies between
\* ceil(A / B) and ceil(A / B) + N - 1, A the number of records sent to the
\* queue and not skipped as malformed, and is ceil(A / B) with one worker.
C9_BatchesCeilPerWorker ==
    (LoadDone /\ numWorkers >= 1) =>
        /\ \A w \in Workers :
               Len(submitted[w]) = CeilDiv(SumLen(submitted[w]), batchSize)
        /\ NumBatches >= CeilDiv(Cardinality(Accepted), batchSize)
        /\ NumBatches <= CeilDiv(Cardinality(Accepted), batchSize)
                             + numWorkers - 1
        /\ numWorkers = 1 =>
               NumBatches = CeilDiv(Cardinality(Accepted), batchSize)

\* Two workers, each with one partial batch: more than ceil(M / B) batches.
C9_Witness ==
    /\ LoadDone
    /\ numWorkers = 2
    /\ Len(input) = 2
    /\ terminated
    /\ batchSize = 2
    /\ NumBatches = 2

\* ---------------------------------------------------------------- C10
\* The places (worker, batch, index) at which record k has been submitted.
Places(k) ==
    {p \in Workers \X (1 .. MaxLines) \X (1 .. MaxBatch) :
        /\ p[2] <= Len(submitted[p[1]])
        /\ p[3] <= Len(submitted[p[1]][p[2]])
        /\ submitted[p[1]][p[2]][p[3]] = k}

\* C10: when the load is over, every record sent to the queue and not
\* skipped as malformed is in exactly one submitted batch of exactly one
\* worker, nothing else is in any batch, no buffer holds a document, and
\* the batch sizes add up to the records sent minus the skipped ones.
C10_Conservation ==
    (LoadDone /\ numWorkers >= 1) =>
        /\ \A k \in Accepted : Cardinality(Places(k)) = 1
        /\ \A k \in (1 .. MaxLines) \ Accepted : Places(k) = {}
        /\ \A w \in Workers : docs[w] = <<>>
        /\ NumDocs = counter - Cardinality(Skipped)

\* Three records sent, one skipped as malformed, both workers have
\* submitted.
C10_Witness ==
    /\ LoadDone
    /\ Exited
    /\ exitCode = 0
    /\ counter = 3
    /\ Cardinality(Skipped) = 1
    /\ submitted[0] # <<>>
    /\ submitted[1] # <<>>

\* ---------------------------------------------------------------- C11
\* C11: every submitted batch holds at least 1 and at most B documents; a
\* batch of fewer than B documents is the last one of its worker and is
\* submitted by the final flush, when the queue is closed and main holds no
\* line; no worker submits an empty batch, so a worker whose buffer is empty
\* at the close returns with nothing more submitted.
C11_BatchSizes ==
    \A w \in Workers :
        /\ \A b \in DOMAIN submitted[w] :
               /\ Len(submitted[w][b]) >= 1
               /\ Len(submitted[w][b]) <= batchSize
               /\ Len(submitted[w][b]) < batchSize =>
                      /\ b = Len(submitted[w])
                      /\ wpc[w] \in {"finalbulk", "done"}
                      /\ closes > 0
                      /\ line = 0
                      /\ pc \notin {"read", "send", "close"}
        /\ Len(docs[w]) < batchSize
        /\ wpc[w] = "done" =>
               Len(submitted[w]) = CeilDiv(SumLen(submitted[w]), batchSize)

\* Of two workers one returns without any submission, the other has
\* submitted a full batch and then a partial one.
C11_Witness ==
    /\ numWorkers = 2
    /\ batchSize = 2
    /\ \A w \in Workers : wpc[w] = "done"
    /\ \E w \in Workers :
        /\ submitted[w] = <<>>
        /\ \E v \in Workers :
            /\ Len(submitted[v]) = 2
            /\ Len(submitted[v][1]) = 2
            /\ Len(submitted[v][2]) = 1

\* ---------------------------------------------------------------- C12
SomeBulkFailed == \E w \in Workers : failed[w] > 0

\* C12: a failed bulk write stays in its worker.  It never ends the process
\* (exit code 1 always comes with a failed step of main); with a failed
\* bulk write behind it the load still completes with every accepted record
\* submitted and every worker returned; and unless a step of main itself
\* returns an error, the process ends with the queue closed, the teardown
\* run and exit code 0.
C12_BulkFailureContained ==
    /\ \A w \in Workers : failed[w] <= Len(submitted[w])
    /\ (Exited /\ exitCode = 1) => \E s \in Steps : Failed(s)
    /\ (SomeBulkFailed /\ LoadDone) =>
           /\ NumDocs = Cardinality(Accepted)
           /\ \A w \in Started : wpc[w] = "done"
    /\ (SomeBulkFailed /\ Exited /\ \A s \in Steps : outcome[s] # "err") =>
           /\ exitCode = 0
           /\ closes = 1
           /\ Issued("restore")
           /\ Issued("flush")

\* Worker 0 has submitted two batches and both bulk writes failed; worker 1
\* has submitted without failure; the run ended with code 0.
C12_Witness ==
    /\ Exited
    /\ exitCode = 0
    /\ numWorkers = 2
    /\ Len(submitted[0]) = 2
    /\ failed[0] = 2
    /\ submitted[1] # <<>>
    /\ failed[1] = 0
    /\ Issued("flush")

\* ---------------------------------------------------------------- C13
RECURSIVE Flatten(_)
\* The batches of a worker, concatenated in submission order.
Flatten(batches) ==
    IF batches = <<>> THEN <<>>
    ELSE Head(batches) \o Flatten(Tail(batches))

RECURSIVE RecordsUpTo(_)
\* The first n lines of the input that are not skipped as malformed, in
\* input order.
RecordsUpTo(n) ==
    IF n = 0 THEN <<>>
    ELSE IF Malformed(n) THEN RecordsUpTo(n - 1)
         ELSE Append(RecordsUpTo(n - 1), n)

\* C13: with exactly one worker, when the load is over, the submitted
\* batches concatenated are the records of the input in input order (read in
\* the claim's favour: those not skipped as malformed), every batch but the
\* last holds exactly B documents, the last holds the remainder, and the
\* queue is closed.
C13_SingleWorkerOrder ==
    (numWorkers = 1 /\ LoadDone) =>
        /\ Flatten(submitted[0]) = RecordsUpTo(Len(input))
        /\ \A b \in DOMAIN submitted[0] :
               Len(submitted[0][b]) =
                   IF b < Len(submitted[0]) \/
                      Len(RecordsUpTo(Len(input))) % batchSize = 0
                   THEN batchSize
                   ELSE Len(RecordsUpTo(Len(input))) % batchSize
        /\ Len(submitted[0]) =
               CeilDiv(Len(RecordsUpTo(Len(input))), batchSize)
        /\ closes = 1

\* ---------------------------------------------------------------- C14
\* The -u value was accepted as a username:password pair.
Configured == Len(user) > 0 /\ outcome["user"] = "ok"

\* C14: whenever -u was given as username:password, each of the
\* disable-refresh, restore-refresh and flush requests that has been issued
\* carried the basic-auth credentials, for every accepted pair, including
\* one whose username or password part is empty.
C14_CredentialsOnEveryRequest ==
    Configured =>
        \A kind \in {"disable", "restore", "flush"} :
            Issued(kind) => kind \in authed

\* ---------------------------------------------------------------- C15
\* C15: the lines are sent in input order, each at most once (the line main
\* holds is the one after the last line sent), and once the queue is closed
\* the lines sent are all the lines of the input, the last line of a stream
\* without a trailing newline included.
C15_EveryLineSentOnce ==
    /\ Sent \subseteq DOMAIN input
    /\ line # 0 => line = counter + 1
    /\ closes > 0 => Sent = DOMAIN input

\* ---------------------------------------------------------------- C16
\* C16: every worker goroutine is created before the disable-refresh
\* request is made; a line is read or sent and a bulk write is issued only
\* after that request has returned with a status below 400, so the request
\* precedes every bulk write; and when it fails or returns a status >= 400
\* the process has exited with code 1 and no record was or will be sent.
C16_NoRecordBeforeDisableReturns ==
    /\ (pc = "disable" \/ outcome["disable"] # "none") => i = numWorkers
    /\ (pos > 0 \/ line # 0 \/ counter > 0 \/ Issued("bulk")) =>
           (outcome["disable"] = "ok" /\ Issued("disable"))
    /\ Before("disable", "bulk")
    /\ Failed("disable") =>
           /\ Exited /\ exitCode = 1
           /\ pos = 0 /\ counter = 0 /\ ~Issued("bulk")

\* Two workers were created, the disable-refresh request succeeded, and a
\* worker has since submitted a bulk write while main holds the next line.
C16_Witness ==
    /\ numWorkers = 2
    /\ outcome["disable"] = "ok"
    /\ Issued("bulk")
    /\ pc = "send"

\* ---------------------------------------------------------------- C17
\* The input stream could not be read to its end.
ReadFailed == outcome["gzip"] = "err" \/ outcome["read"] = "err"

\* The load and the teardown are complete.
TornDown ==
    /\ closes = 1
    /\ \A w \in Started : wpc[w] = "done"
    /\ wg = 0
    /\ Issued("restore")
    /\ Issued("flush")

\* C17: a worker has returned only if the queue is closed; and under fair
\* scheduling, with one worker at least, once the load begins (the refresh
\* interval is disabled) then, unless the stream fails to be read, the
\* queue is eventually closed, every worker has returned, the wait is over
\* and the restore-refresh and flush requests have been made.
C17_Termination ==
    /\ [](\A w \in Workers : wpc[w] = "done" => closes = 1)
    /\ (numWorkers >= 1 /\ pc = "reader") ~> (ReadFailed \/ TornDown)

\* ---------------------------------------------------------------- C18
\* The places (worker, index) at which record k sits in a worker's buffer.
Buffered(k) ==
    {p \in Workers \X (1 .. MaxBatch) :
        p[2] <= Len(docs[p[1]]) /\ docs[p[1]][p[2]] = k}

\* C18: the queue holds nothing: every record sent and not skipped as
\* malformed is with exactly one worker, in its buffer or in a submitted
\* batch, and no other record is with any worker; at most one line has been
\* read and not sent, and it is the line main holds or the unterminated
\* last line; main reads a line only when every line read before has been
\* received; and a worker busy with a bulk write has an empty buffer, so it
\* has received nothing since it submitted.
C18_Backpressure ==
    /\ \A k \in Accepted :
           Cardinality(Places(k)) + Cardinality(Buffered(k)) = 1
    /\ \A k \in (1 .. MaxLines) \ Accepted :
           Places(k) = {} /\ Buffered(k) = {}
    /\ pos - counter \in {0, 1}
    /\ line # 0 => (line = pos /\ counter = pos - 1)
    /\ pc = "send" => line # 0
    /\ pc = "read" => (line = 0 /\ counter = pos)
    /\ \A w \in Workers :
           wpc[w] \in {"bulk", "finalbulk"} => docs[w] = <<>>

\* The only worker is busy submitting a batch while main holds the next
\* record, which nobody can receive.
C18_Witness ==
    /\ numWorkers = 1
    /\ wpc[0] = "bulk"
    /\ pc = "send"
    /\ line = 2

\* ---------------------------------------------------------------- C19
\* C19: under fair scheduling and for every worker count, 0 included, a
\* line main holds for sending is eventually received; and once the load
\* begins then, unless the stream fails to be read, the queue is
\* eventually closed and, unless the memory profile cannot be created, the
\* restore-refresh request is eventually made.
C19_TerminatesForEveryWorkerCount ==
    /\ (line # 0) ~> (line = 0)
    /\ (pc = "reader") ~> (ReadFailed \/ closes = 1)
    /\ (pc = "reader") ~>
           (ReadFailed \/ Failed("memprofile") \/ Issued("restore"))

====
